---- MODULE Spec2Model ----
(***************************************************************************)
(* Model of app.py: the record-sale and add-product workflows over the two *)
(* Google Sheets "Inventory" and "SalesData".                              *)
(*                                                                         *)
(* Cyrillic literals of the source are transliterated:                     *)
(*   "OBSHTO" = the total-row marker, "Klient ime" = client name,          *)
(*   "Belezhka" = note, "Data" = date, "Faktura No" = document number,     *)
(*   "Obshto kol-vo" = total quantity, "Cena" = unit price,                *)
(*   "Suma lv." = line total.                                              *)
(*                                                                         *)
(* A worksheet is a grid: a sequence of rows, each a sequence of cells;    *)
(* a row that holds nothing (the title block above the SalesData header)   *)
(* is the empty sequence.                                                  *)
(* A cell is what was entered into it (USER_ENTERED): blank, text, a       *)
(* number, or a formula =SUM(<col><lo>:<col><hi>).  row_values is read as  *)
(* the code reads it: a formula cell is one whose value starts with '='.   *)
(***************************************************************************)
EXTENDS Integers, Sequences, FiniteSets, TLC

\* ------------------------------------------------------------- bounds ----
MaxSales == 2      \* rows the record-sale workflow may add to SalesData
MaxStock == 1      \* initial quantity on hand of a product
MaxQty   == 2      \* largest quantity typed into a form
MaxMid   == 4      \* columns of a drawn header between "Faktura No" and "Suma lv."

\* ---------------------------------------------------- program constants --
HeaderRow    == 4
FirstDataRow == 5

MARKER              == "OBSHTO"
ClientColumn        == "Klient ime"
NoteColumn          == "Belezhka"
DateColumn          == "Data"
DocColumn           == "Faktura No"
TotalQuantityColumn == "Obshto kol-vo"
UnitPriceColumn     == "Cena"
SumColumn           == "Suma lv."

\* ----------------------------------------------------------- strings ----
\* str.strip() on the strings that occur in the model
Strip(s) ==
  CASE s = "Obshto "  -> "Obshto"
    [] s = "OBSHTO "  -> "OBSHTO"
    [] s = " Cena"    -> "Cena"
    [] s = "Suma  lv." -> "Suma  lv."
    [] OTHER          -> s

\* str.upper()
Upper(s) ==
  CASE s = "Obshto"  -> "OBSHTO"
    [] s = "Obshto " -> "OBSHTO "
    [] s = "obshto"  -> "OBSHTO"
    [] s = "ivan"    -> "IVAN"
    [] OTHER         -> s

\* re.sub(r'\s+', ' ', str(c).strip())
NormalizeHeader(s) ==
  CASE Strip(s) = "Suma  lv." -> "Suma lv."
    [] OTHER                  -> Strip(s)

\* ------------------------------------------------------------- cells ----
Blank == [t |-> "blank", s |-> "", n |-> 0, lo |-> 0, hi |-> 0]
Txt(s) == IF s = "" THEN Blank
          ELSE [t |-> "txt", s |-> s, n |-> 0, lo |-> 0, hi |-> 0]
Num(n) == [t |-> "num", s |-> "", n |-> n, lo |-> 0, hi |-> 0]
\* "=SUM({col_letter}{lo}:{col_letter}{hi})", n is the column index
SumFormula(c, lo, hi) == [t |-> "sum", s |-> "", n |-> c, lo |-> lo, hi |-> hi]

\* str(value).startswith('=')
StartsWithEq(cell) == cell.t = "sum"

\* ------------------------------------------------------- list helpers ---
\* list.index(x) as a 0-based position, -1 standing for ValueError
IndexOf(seq, x) ==
  IF \E i \in 1..Len(seq) : seq[i] = x
  THEN (CHOOSE i \in 1..Len(seq) : seq[i] = x /\ \A j \in 1..(i-1) : seq[j] # x) - 1
  ELSE -1

Range(seq) == {seq[i] : i \in 1..Len(seq)}

InsertAt(seq, i, x) ==
  [j \in 1..(Len(seq) + 1) |->
     IF j < i THEN seq[j] ELSE IF j = i THEN x ELSE seq[j-1]]

\* ------------------------------------------------------ worksheet reads --
\* number of cells row_values() returns: trailing empty cells are dropped
RowLen(row) ==
  IF \E c \in 1..Len(row) : row[c].t # "blank"
  THEN CHOOSE c \in 1..Len(row) :
         row[c].t # "blank" /\ \A d \in (c+1)..Len(row) : row[d].t = "blank"
  ELSE 0

\* sheet.row_values(r) of a header row: the cell texts
RowValues(sheet, r) ==
  IF r > Len(sheet) THEN << >>
  ELSE [c \in 1..RowLen(sheet[r]) |-> sheet[r][c].s]

\* sheet.find("OBSHTO"): row of the first cell, in row-major order over the
\* whole sheet, whose value is exactly the query; 0 stands for None
FindRow(sheet, query) ==
  LET hit(r) == \E c \in 1..Len(sheet[r]) :
                   sheet[r][c].t = "txt" /\ sheet[r][c].s = query
  IN IF \E r \in 1..Len(sheet) : hit(r)
     THEN CHOOSE r \in 1..Len(sheet) : hit(r) /\ \A q \in 1..(r-1) : ~hit(q)
     ELSE 0

\* ----------------------------------------------------- worksheet writes --
\* what the spreadsheet does to a formula when a row is inserted at idx:
\* references at or below the inserted row move down by one
ShiftRows(cell, idx) ==
  IF cell.t # "sum" THEN cell
  ELSE IF idx <= cell.lo THEN [cell EXCEPT !.lo = @ + 1, !.hi = @ + 1]
  ELSE IF idx <= cell.hi THEN [cell EXCEPT !.hi = @ + 1]
  ELSE cell

\* what the spreadsheet does to a formula when a column is inserted at idx
ShiftCols(cell, idx) ==
  IF cell.t = "sum" /\ idx <= cell.n THEN [cell EXCEPT !.n = @ + 1] ELSE cell

Width(sheet) == Len(sheet[HeaderRow])

\* sheet.insert_row(values, index): values fill the row from column 1
InsertRow(sheet, values, idx) ==
  LET shifted == [r \in 1..Len(sheet) |->
                    [c \in 1..Len(sheet[r]) |-> ShiftRows(sheet[r][c], idx)]]
      newRow  == [c \in 1..Width(sheet) |->
                    IF c <= Len(values) THEN values[c] ELSE Blank]
  IN InsertAt(shifted, idx, newRow)

\* insertDimension COLUMNS [idx-1, idx): an empty column at 1-based idx
InsertColumn(sheet, idx) ==
  [r \in 1..Len(sheet) |->
     IF Len(sheet[r]) < idx THEN sheet[r]
     ELSE InsertAt([c \in 1..Len(sheet[r]) |-> ShiftCols(sheet[r][c], idx)],
                   idx, Blank)]

\* sheet.update_cell(row, col, value)
UpdateCell(sheet, r, c, cell) == [sheet EXCEPT ![r][c] = cell]

\* ------------------------------------------------- load_data_from_sheet --
\* df.columns of SalesData: the header row, each name normalised.  With no
\* record below the header get_all_records is empty and so are the columns.
LoadColumns(sheet) ==
  IF Len(sheet) <= HeaderRow THEN << >>
  ELSE [c \in 1..RowLen(sheet[HeaderRow]) |->
          NormalizeHeader(sheet[HeaderRow][c].s)]

\* the row filter comparing the client name with the marker as it stands
IsAggregateRow_ExactMatch(sheet, r) ==
  LET c == IndexOf(LoadColumns(sheet), ClientColumn) + 1
  IN c >= 1 /\ c <= Len(sheet[r]) /\ sheet[r][c].s = MARKER

\* the row filter of load_data_from_sheet: a row is dropped from the view
\* when its client name, stripped and upper-cased, is the marker
IsAggregateRow(sheet, r) ==
  LET c == IndexOf(LoadColumns(sheet), ClientColumn) + 1
  IN c >= 1 /\ c <= Len(sheet[r]) /\ Upper(Strip(sheet[r][c].s)) = MARKER

\* the rows of the loaded view, as sheet row numbers: the records below the
\* header that pass the row filter
LoadRows(sheet) ==
  SelectSeq([i \in 1..(Len(sheet) - HeaderRow) |-> HeaderRow + i],
            LAMBDA r : ~IsAggregateRow(sheet, r))

\* the slice taken from the sentinel itself: all_cols[index(start) : index(stop)]
ProductList_FromSentinel(all_cols) ==
  LET s == IndexOf(all_cols, TotalQuantityColumn)
      e == IndexOf(all_cols, UnitPriceColumn)
  IN IF s = -1 \/ e = -1 THEN << >>
     ELSE [i \in 1..(IF e - s > 0 THEN e - s ELSE 0) |-> all_cols[s + i]]

\* all_cols[all_cols.index(start) + 1 : all_cols.index(stop)]
ProductList(all_cols) ==
  LET s == IndexOf(all_cols, TotalQuantityColumn)
      e == IndexOf(all_cols, UnitPriceColumn)
  IN IF s = -1 \/ e = -1 THEN << >>
     ELSE [i \in 1..(IF e - (s + 1) > 0 THEN e - (s + 1) ELSE 0) |->
             all_cols[s + 1 + i]]

\* ------------------------------------------------------ update_inventory --
\* sheet.find(product_name, in_column=1) over the Inventory records;
\* 0 stands for None
FindProduct(inv, name) ==
  IF \E i \in 1..Len(inv) : inv[i].name = name
  THEN CHOOSE i \in 1..Len(inv) :
         inv[i].name = name /\ \A j \in 1..(i-1) : inv[j].name # name
  ELSE 0

\* update_inventory without the "new_quantity < 0" test
update_inventory_NoStockCheck(inv, product_name, quantity_to_subtract, fail) ==
  LET row          == FindProduct(inv, product_name)
      new_quantity == inv[row].qty - quantity_to_subtract
  IN IF fail = "inv_open"
       THEN [ok |-> FALSE, inv |-> inv, msg |-> "InventoryWriteFailed",
             cleared |-> FALSE, fault |-> fail]
     ELSE IF row = 0
       THEN [ok |-> FALSE, inv |-> inv, msg |-> "NotFound",
             cleared |-> FALSE, fault |-> "none"]
     ELSE IF fail = "inv_write"
       THEN [ok |-> FALSE, inv |-> inv, msg |-> "InventoryWriteFailed",
             cleared |-> FALSE, fault |-> fail]
     ELSE [ok |-> TRUE, inv |-> [inv EXCEPT ![row].qty = new_quantity],
           msg |-> "", cleared |-> TRUE, fault |-> "none"]

\* update_inventory returning True when the product is not found
update_inventory_NotFoundIsOk(inv, product_name, quantity_to_subtract, fail) ==
  LET row          == FindProduct(inv, product_name)
      new_quantity == inv[row].qty - quantity_to_subtract
  IN IF fail = "inv_open"
       THEN [ok |-> FALSE, inv |-> inv, msg |-> "InventoryWriteFailed",
             cleared |-> FALSE, fault |-> fail]
     ELSE IF row = 0
       THEN [ok |-> TRUE, inv |-> inv, msg |-> "NotFound",
             cleared |-> FALSE, fault |-> "none"]
     ELSE IF new_quantity < 0
       THEN [ok |-> FALSE, inv |-> inv, msg |-> "InsufficientStock",
             cleared |-> FALSE, fault |-> "none"]
     ELSE IF fail = "inv_write"
       THEN [ok |-> FALSE, inv |-> inv, msg |-> "InventoryWriteFailed",
             cleared |-> FALSE, fault |-> fail]
     ELSE [ok |-> TRUE, inv |-> [inv EXCEPT ![row].qty = new_quantity],
           msg |-> "", cleared |-> TRUE, fault |-> "none"]

\* update_inventory returning True although update_cell raised
update_inventory_IgnoresWriteError(inv, product_name, quantity_to_subtract, fail) ==
  LET row          == FindProduct(inv, product_name)
      new_quantity == inv[row].qty - quantity_to_subtract
  IN IF fail = "inv_open"
       THEN [ok |-> FALSE, inv |-> inv, msg |-> "InventoryWriteFailed",
             cleared |-> FALSE, fault |-> fail]
     ELSE IF row = 0
       THEN [ok |-> FALSE, inv |-> inv, msg |-> "NotFound",
             cleared |-> FALSE, fault |-> "none"]
     ELSE IF new_quantity < 0
       THEN [ok |-> FALSE, inv |-> inv, msg |-> "InsufficientStock",
             cleared |-> FALSE, fault |-> "none"]
     ELSE IF fail = "inv_write"
       THEN [ok |-> TRUE, inv |-> inv, msg |-> "",
             cleared |-> FALSE, fault |-> fail]
     ELSE [ok |-> TRUE, inv |-> [inv EXCEPT ![row].qty = new_quantity],
           msg |-> "", cleared |-> TRUE, fault |-> "none"]

\* result: ok = the returned flag, inv = the Inventory sheet afterwards,
\* msg = the error shown, cleared = load_data_from_sheet.clear() was run,
\* fault = the backend call that raised ("none" when none did).
\* fail = "inv_open": a backend call up to find raised;
\* fail = "inv_write": update_cell raised
update_inventory(inv, product_name, quantity_to_subtract, fail) ==
  LET row          == FindProduct(inv, product_name)
      new_quantity == inv[row].qty - quantity_to_subtract
  IN IF fail = "inv_open"
       THEN [ok |-> FALSE, inv |-> inv, msg |-> "InventoryWriteFailed",
             cleared |-> FALSE, fault |-> fail]
     ELSE IF row = 0
       THEN [ok |-> FALSE, inv |-> inv, msg |-> "NotFound",
             cleared |-> FALSE, fault |-> "none"]
     ELSE IF new_quantity < 0
       THEN [ok |-> FALSE, inv |-> inv, msg |-> "InsufficientStock",
             cleared |-> FALSE, fault |-> "none"]
     ELSE IF fail = "inv_write"
       THEN [ok |-> FALSE, inv |-> inv, msg |-> "InventoryWriteFailed",
             cleared |-> FALSE, fault |-> fail]
     ELSE [ok |-> TRUE, inv |-> [inv EXCEPT ![row].qty = new_quantity],
           msg |-> "", cleared |-> TRUE, fault |-> "none"]

\* ------------------------------------------------------- append_to_sales --
\* the repair loop without the test "startswith('=')"
ColsToRepair_IgnoresFormulaTest(sheet, new_total_row_index) ==
  LET headers            == RowValues(sheet, HeaderRow)
      start_col_index    == IndexOf(headers, SumColumn) + 1
      end_col_index      == IndexOf(headers, UnitPriceColumn)
      num_product_cols   == end_col_index - (IndexOf(headers, TotalQuantityColumn) + 1)
      total_cols_to_sum  == 1 + 1 + num_product_cols
      effective_end      == start_col_index + total_cols_to_sum
      total_row          == sheet[new_total_row_index]
  IN {c \in start_col_index..(effective_end - 1) : c <= Len(total_row)}

\* the AggregateRow cells the formula repair rewrites, as column indexes
\* (the loop "for col_idx in range(start_col_index, effective_end_col_index)")
ColsToRepair(sheet, new_total_row_index) ==
  LET headers            == RowValues(sheet, HeaderRow)
      start_col_index    == IndexOf(headers, SumColumn) + 1
      end_col_index      == IndexOf(headers, UnitPriceColumn)
      num_product_cols   == end_col_index - (IndexOf(headers, TotalQuantityColumn) + 1)
      total_cols_to_sum  == 1 + 1 + num_product_cols
      effective_end      == start_col_index + total_cols_to_sum
      total_row          == sheet[new_total_row_index]
  IN {c \in start_col_index..(effective_end - 1) :
        c <= RowLen(total_row) /\ StartsWithEq(total_row[c])}

\* headers.index(...) raises ValueError when a name is not in row 4
HeaderLookupFails(sheet) ==
  LET headers == RowValues(sheet, HeaderRow)
  IN \/ IndexOf(headers, SumColumn) = -1
     \/ IndexOf(headers, UnitPriceColumn) = -1
     \/ IndexOf(headers, TotalQuantityColumn) = -1

\* result: ok = the returned flag, sheet = SalesData afterwards,
\* cleared = load_data_from_sheet.clear() was run.
\* fail = "app_pre": a backend call up to insert_row raised;
\* fail = "app_post": a backend call after insert_row raised
append_to_sales(sheet, row_data, all_cols, fail) ==
  LET total_row           == FindRow(sheet, MARKER)
      insert_row_index    == IF total_row # 0 THEN total_row ELSE Len(sheet) + 1
      row_to_insert       == [i \in 1..Len(all_cols) |-> row_data[all_cols[i]]]
      inserted            == InsertRow(sheet, row_to_insert, insert_row_index)
      new_total_row_index == IF total_row # 0 THEN insert_row_index + 1 ELSE -1
      last_data_row_index == new_total_row_index - 1
      formulas_to_update  == ColsToRepair(inserted, new_total_row_index)
      repaired            ==
        [inserted EXCEPT ![new_total_row_index] =
           [c \in 1..Len(@) |->
              IF c \in formulas_to_update
              THEN SumFormula(c, FirstDataRow, last_data_row_index)
              ELSE @[c]]]
  IN IF fail = "app_pre"
       THEN [ok |-> FALSE, sheet |-> sheet, cleared |-> FALSE, fault |-> fail]
     ELSE IF new_total_row_index = -1
       THEN [ok |-> TRUE, sheet |-> inserted, cleared |-> TRUE, fault |-> "none"]
     ELSE IF fail = "app_post"
       THEN [ok |-> FALSE, sheet |-> inserted, cleared |-> FALSE, fault |-> fail]
     ELSE IF HeaderLookupFails(inserted)
       THEN [ok |-> FALSE, sheet |-> inserted, cleared |-> FALSE, fault |-> "none"]
     ELSE [ok |-> TRUE, sheet |-> repaired, cleared |-> TRUE, fault |-> "none"]

\* new_row_data with the quantity written under every product column
NewRowData_EveryProduct(all_cols, client_name, doc_number, doc_date, doc_note, selected_product, quantity, price) ==
  [col \in Range(all_cols) |->
     IF col = SumColumn THEN Num(quantity * price)
     ELSE IF col = UnitPriceColumn THEN Num(price)
     ELSE IF col \in Range(ProductList(all_cols)) THEN Num(quantity)
     ELSE IF col = TotalQuantityColumn THEN Num(quantity)
     ELSE IF col = NoteColumn THEN Txt(doc_note)
     ELSE IF col = ClientColumn THEN Txt(Upper(client_name))
     ELSE IF col = DocColumn THEN Txt(doc_number)
     ELSE IF col = DateColumn THEN Txt(doc_date)
     ELSE Blank]

\* new_row_data of the new_entry_form submit handler
NewRowData(all_cols, client_name, doc_number, doc_date, doc_note, selected_product, quantity, price) ==
  [col \in Range(all_cols) |->
     IF col = SumColumn THEN Num(quantity * price)
     ELSE IF col = UnitPriceColumn THEN Num(price)
     ELSE IF col = selected_product THEN Num(quantity)
     ELSE IF col = TotalQuantityColumn THEN Num(quantity)
     ELSE IF col = NoteColumn THEN Txt(doc_note)
     ELSE IF col = ClientColumn THEN Txt(Upper(client_name))
     ELSE IF col = DocColumn THEN Txt(doc_number)
     ELSE IF col = DateColumn THEN Txt(doc_date)
     ELSE Blank]

\* ------------------------------------------ add_new_product_to_inventory --
\* add_new_product_to_inventory without the "already exists" test
add_new_product_to_inventory_NoDuplicateCheck(inv, product_name, initial_quantity, fail) ==
  IF fail = "inv_open"
    THEN [ok |-> FALSE, inv |-> inv, msg |-> "InventoryWriteFailed", fault |-> fail]
  ELSE IF fail = "inv_write"
    THEN [ok |-> FALSE, inv |-> inv, msg |-> "InventoryWriteFailed", fault |-> fail]
  ELSE [ok |-> TRUE,
        inv |-> Append(inv, [name |-> product_name, qty |-> initial_quantity]),
        msg |-> "", fault |-> "none"]

add_new_product_to_inventory(inv, product_name, initial_quantity, fail) ==
  IF fail = "inv_open"
    THEN [ok |-> FALSE, inv |-> inv, msg |-> "InventoryWriteFailed", fault |-> fail]
  ELSE IF FindProduct(inv, product_name) # 0
    THEN [ok |-> FALSE, inv |-> inv, msg |-> "DuplicateProduct", fault |-> "none"]
  ELSE IF fail = "inv_write"
    THEN [ok |-> FALSE, inv |-> inv, msg |-> "InventoryWriteFailed", fault |-> fail]
  ELSE [ok |-> TRUE,
        inv |-> Append(inv, [name |-> product_name, qty |-> initial_quantity]),
        msg |-> "", fault |-> "none"]

\* ----------------------------------------------- add_column_to_salesdata --
\* add_column_to_salesdata inserting at the 0-based position of "Cena"
add_column_to_salesdata_OffByOne(sheet, product_name, fail) ==
  LET headers         == RowValues(sheet, HeaderRow)
      price_col_index == IndexOf(headers, UnitPriceColumn)
      inserted        == InsertColumn(sheet, price_col_index)
  IN IF fail = "col_pre"
       THEN [ok |-> FALSE, sheet |-> sheet, msg |-> "ColumnWriteFailed",
             cleared |-> FALSE, fault |-> fail]
     ELSE IF price_col_index = -1
       THEN [ok |-> FALSE, sheet |-> sheet, msg |-> "PriceColumnMissing",
             cleared |-> FALSE, fault |-> "none"]
     ELSE IF fail = "col_mid"
       THEN [ok |-> FALSE, sheet |-> inserted, msg |-> "ColumnWriteFailed",
             cleared |-> FALSE, fault |-> fail]
     ELSE [ok |-> TRUE,
           sheet |-> UpdateCell(inserted, HeaderRow, price_col_index, Txt(product_name)),
           msg |-> "", cleared |-> TRUE, fault |-> "none"]

\* fail = "col_pre": a backend call up to batch_update raised;
\* fail = "col_mid": update_cell raised after batch_update inserted the column
add_column_to_salesdata(sheet, product_name, fail) ==
  LET headers         == RowValues(sheet, HeaderRow)
      price_col_index == IndexOf(headers, UnitPriceColumn) + 1
      inserted        == InsertColumn(sheet, price_col_index)
  IN IF fail = "col_pre"
       THEN [ok |-> FALSE, sheet |-> sheet, msg |-> "ColumnWriteFailed",
             cleared |-> FALSE, fault |-> fail]
     ELSE IF price_col_index = 0
       THEN [ok |-> FALSE, sheet |-> sheet, msg |-> "PriceColumnMissing",
             cleared |-> FALSE, fault |-> "none"]
     ELSE IF fail = "col_mid"
       THEN [ok |-> FALSE, sheet |-> inserted, msg |-> "ColumnWriteFailed",
             cleared |-> FALSE, fault |-> fail]
     ELSE [ok |-> TRUE,
           sheet |-> UpdateCell(inserted, HeaderRow, price_col_index, Txt(product_name)),
           msg |-> "", cleared |-> TRUE, fault |-> "none"]

\* ================================================================ state ==
VARIABLES
  inventory,  \* Inventory sheet below its header: <<[name, qty], ...>>
  sales,      \* SalesData sheet: rows of cells, header on row 4
  cache,      \* st.cache_data entry of load_data_from_sheet("SalesData")
  last,       \* the last form submission and the outcome shown for it
  sessions    \* per browser session: the handler in flight and its locals

vars == <<inventory, sales, cache, last, sessions>>

\* the sessions one server process runs as threads over one cache
Sessions == {1, 2}

\* a session with no handler in flight
Idle ==
  [pc |-> "idle", op |-> "", product |-> "", qty |-> 0, all_cols |-> << >>,
   row |-> 0, read |-> 0, idx |-> 0, found |-> FALSE, out |-> ""]

AllIdle == [s \in Sessions |-> Idle]

\* ----------------------------------------------------------- inputs ------
InitialProducts == <<"A", "B">>
ProductNames    == {"A", "C", ""}
InitialQuantities == {0, 1}
ClientNames     == {"ivan", ""}
Notes           == {""}
Prices          == {150}
DocNumber       == "59460"
DocDate         == "07/20/2024"
MarkerSpellings == {"OBSHTO", "Obshto "}

\* a form whose required field is empty is turned down before any backend
\* call is made, and the note plays no part
NotesFor(client_name) == IF client_name = "" THEN {""} ELSE Notes

InitialHeader ==
  <<ClientColumn, NoteColumn, DateColumn, DocColumn, TotalQuantityColumn>>
    \o InitialProducts \o <<UnitPriceColumn, SumColumn>>

InitialWidth == Len(InitialHeader)
InitialRows  == HeaderRow + 2

\* the aggregate-row columns a ledger designer may have given a formula
FormulaChoices ==
  { {TotalQuantityColumn, InitialProducts[2], SumColumn} }

InitialSales(marker, formulaCols) ==
  [r \in 1..InitialRows |->
     [c \in 1..(IF r < HeaderRow THEN 0 ELSE InitialWidth) |->
        IF r = HeaderRow THEN Txt(InitialHeader[c])
        ELSE IF r = FirstDataRow THEN
          (CASE InitialHeader[c] = ClientColumn        -> Txt("PETROV")
             [] InitialHeader[c] = DateColumn          -> Txt(DocDate)
             [] InitialHeader[c] = DocColumn           -> Txt("59459")
             [] InitialHeader[c] = TotalQuantityColumn -> Num(1)
             [] InitialHeader[c] = InitialProducts[2]  -> Num(1)
             [] InitialHeader[c] = UnitPriceColumn     -> Num(150)
             [] InitialHeader[c] = SumColumn           -> Num(150)
             [] OTHER                                  -> Blank)
        ELSE IF InitialHeader[c] = ClientColumn THEN Txt(marker)
        ELSE IF InitialHeader[c] \in formulaCols
          THEN SumFormula(c, FirstDataRow, FirstDataRow)
        ELSE Blank]]

NoCache == [valid |-> FALSE, cols |-> << >>]

\* op = the form submitted, product and qty = its product and quantity
\* fields, fault = the backend call that raised while it was handled,
\* out = the outcome shown for it, second = the second backend step
\* (append_to_sales, add_column_to_salesdata) was called
Shown(op, product, qty, fault, out, second) ==
  [op |-> op, product |-> product, qty |-> qty, fault |-> fault,
   out |-> out, second |-> second]

Init ==
  /\ inventory = [i \in 1..Len(InitialProducts) |->
                    [name |-> InitialProducts[i], qty |-> MaxStock]]
  /\ \E marker \in MarkerSpellings, f \in FormulaChoices :
       sales = InitialSales(marker, f)
  /\ cache = NoCache
  /\ last = Shown("init", "", 0, "none", "", FALSE)
  /\ sessions = AllIdle

\* documents_df.columns of one script run: the cached entry when there is
\* one, else a fresh load
LoadedColumns == IF cache.valid THEN cache.cols ELSE LoadColumns(sales)

\* the cache entry after a script run that loaded all_cols
CacheAfter(all_cols, cleared) ==
  IF cleared THEN NoCache ELSE [valid |-> TRUE, cols |-> all_cols]

\* ---------------------------------------- new_entry_form submit handler --
\* all_cols = documents_df.columns as this script run loaded them
RecordSale(all_cols, selected_product, quantity, price, client_name, doc_note, fail) ==
  LET ui  == update_inventory(inventory, selected_product, quantity, fail)
      row == NewRowData(all_cols, client_name, DocNumber, DocDate, doc_note,
                        selected_product, quantity, price)
      ap  == append_to_sales(sales, row, all_cols, fail)
  IN /\ Len(sales) < InitialRows + MaxSales
     /\ selected_product \in Range(ProductList(all_cols))
     /\ UNCHANGED sessions
     /\ IF client_name = ""
        THEN /\ UNCHANGED <<inventory, sales>>
             /\ cache' = CacheAfter(all_cols, FALSE)
             /\ last' = Shown("sale", selected_product, quantity, "none",
                              "MissingFields", FALSE)
        ELSE IF ~ui.ok
        THEN /\ UNCHANGED <<inventory, sales>>
             /\ cache' = CacheAfter(all_cols, FALSE)
             /\ last' = Shown("sale", selected_product, quantity, ui.fault,
                              ui.msg, FALSE)
        ELSE /\ inventory' = ui.inv
             /\ sales' = ap.sheet
             /\ cache' = CacheAfter(all_cols, TRUE)
             /\ last' = Shown("sale", selected_product, quantity, ap.fault,
                              IF ap.ok THEN "Success" ELSE "LedgerWriteFailed",
                              TRUE)

\* --------------------------------------- new_product_form submit handler --
Provision(all_cols, new_product_name, initial_quantity, fail) ==
  LET np == add_new_product_to_inventory(inventory, new_product_name,
                                         initial_quantity, fail)
      ac == add_column_to_salesdata(sales, new_product_name, fail)
  IN /\ UNCHANGED sessions
     /\ IF new_product_name = ""
        THEN /\ UNCHANGED <<inventory, sales>>
             /\ cache' = CacheAfter(all_cols, FALSE)
             /\ last' = Shown("provision", new_product_name, initial_quantity,
                              "none", "MissingName", FALSE)
        ELSE IF ~np.ok
        THEN /\ UNCHANGED <<inventory, sales>>
             /\ cache' = CacheAfter(all_cols, FALSE)
             /\ last' = Shown("provision", new_product_name, initial_quantity,
                              np.fault, np.msg, FALSE)
        ELSE /\ inventory' = np.inv
             /\ sales' = ac.sheet
             /\ cache' = CacheAfter(all_cols, TRUE)
             /\ last' = Shown("provision", new_product_name, initial_quantity,
                              ac.fault, IF ac.ok THEN "Provisioned" ELSE "InventoryOnly",
                              TRUE)

\* the backend calls one submission of new_entry_form makes, each of which
\* may raise: a fault is drawn among the calls that are reached
SaleFaultPoints(selected_product, quantity, client_name) ==
  LET row == FindProduct(inventory, selected_product)
  IN IF client_name = "" THEN {"none"}
     ELSE {"none", "inv_open"}
          \cup (IF row # 0 /\ inventory[row].qty - quantity >= 0
                THEN {"inv_write", "app_pre"}
                     \cup (IF FindRow(sales, MARKER) # 0 THEN {"app_post"} ELSE {})
                ELSE {})

\* the same for one submission of new_product_form
ProvisionFaultPoints(new_product_name) ==
  IF new_product_name = "" THEN {"none"}
  ELSE {"none", "inv_open"}
       \cup (IF FindProduct(inventory, new_product_name) = 0
             THEN {"inv_write", "col_pre"}
                  \cup (IF IndexOf(RowValues(sales, HeaderRow), UnitPriceColumn) # -1
                        THEN {"col_mid"} ELSE {})
             ELSE {})

\* the ttl=60 of st.cache_data runs out
CacheExpire ==
  /\ cache.valid
  /\ cache' = NoCache
  /\ UNCHANGED <<inventory, sales, sessions>>
  /\ last' = Shown("expire", "", 0, "none", "", FALSE)

Next ==
  \/ \E all_cols \in {LoadedColumns} :
       \E p \in Range(ProductList(all_cols)), q \in 1..MaxQty, pr \in Prices,
          cl \in ClientNames :
         \E n \in NotesFor(cl), f \in SaleFaultPoints(p, q, cl) :
           RecordSale(all_cols, p, q, pr, cl, n, f)
  \/ \E all_cols \in {LoadedColumns}, p \in ProductNames :
       \E k \in InitialQuantities, f \in ProvisionFaultPoints(p) :
         Provision(all_cols, p, k, f)
  \/ CacheExpire

Spec == Init /\ [][Next]_vars

\* ====================================== ledgers of other shapes: headers ==
\* a script run in the mode "record entry" with no form submitted: the
\* schema is resolved from the loaded columns, the error of line 302 is
\* shown when a sentinel is not found, the form when product_list is not
\* empty.  Shown: qty = len(product_list), out = the error shown,
\* second = the form is shown
SchemaResolutionFails(all_cols) ==
  \/ IndexOf(all_cols, TotalQuantityColumn) = -1
  \/ IndexOf(all_cols, UnitPriceColumn) = -1

ViewEntryForm(all_cols) ==
  LET product_list == ProductList(all_cols)
  IN /\ UNCHANGED <<inventory, sales, sessions>>
     /\ cache' = CacheAfter(all_cols, FALSE)
     /\ last' = Shown("view", "", Len(product_list), "none",
                      IF SchemaResolutionFails(all_cols)
                      THEN "MissingSentinel" ELSE "",
                      product_list # << >>)

\* the names a persisted header may hold between "Faktura No" and
\* "Suma lv.": the sentinels, one of them with stray whitespace, products
HeaderNames == {TotalQuantityColumn, UnitPriceColumn, " Cena", "A", "B"}

\* the sequences of at most MaxMid different HeaderNames
DrawnMids ==
  UNION { {m \in [1..n -> HeaderNames] :
             \A i, j \in 1..n : m[i] = m[j] => i = j} : n \in 0..MaxMid }

HeaderAround(mid) ==
  <<ClientColumn, NoteColumn, DateColumn, DocColumn>> \o mid \o <<SumColumn>>

\* a ledger with the given header, one record and the total row
LedgerWith(header) ==
  [r \in 1..InitialRows |->
     [c \in 1..(IF r < HeaderRow THEN 0 ELSE Len(header)) |->
        IF r = HeaderRow THEN Txt(header[c])
        ELSE IF r = FirstDataRow THEN
          (CASE header[c] = ClientColumn -> Txt("PETROV")
             [] header[c] = DateColumn   -> Txt(DocDate)
             [] header[c] = DocColumn    -> Txt("59459")
             [] header[c] = SumColumn    -> Num(150)
             [] OTHER                    -> Blank)
        ELSE IF header[c] = ClientColumn THEN Txt(MARKER)
        ELSE IF header[c] = SumColumn
          THEN SumFormula(c, FirstDataRow, FirstDataRow)
        ELSE Blank]]

InitHeaders ==
  /\ inventory = [i \in 1..Len(InitialProducts) |->
                    [name |-> InitialProducts[i], qty |-> MaxStock]]
  /\ \E mid \in DrawnMids : sales = LedgerWith(HeaderAround(mid))
  /\ cache = NoCache
  /\ last = Shown("init", "", 0, "none", "", FALSE)
  /\ sessions = AllIdle

\* the forms filled in with one client, one price, one new product, and no
\* backend call failing
FormClient  == "ivan"
FormProduct == "C"

NextForms ==
  \/ \E all_cols \in {LoadedColumns} : ViewEntryForm(all_cols)
  \/ \E all_cols \in {LoadedColumns} :
       \E p \in Range(ProductList(all_cols)), q \in 1..MaxQty, pr \in Prices :
         RecordSale(all_cols, p, q, pr, FormClient, "", "none")
  \/ \E all_cols \in {LoadedColumns}, k \in InitialQuantities :
       Provision(all_cols, FormProduct, k, "none")

SpecHeaders == InitHeaders /\ [][NextForms]_vars

\* ================================= ledgers of other shapes: total rows ==
\* the total-row cells a ledger designer gave a formula
AggregateLayouts ==
  { {}, {TotalQuantityColumn}, {SumColumn},
    {TotalQuantityColumn, InitialProducts[2], SumColumn} }

InitAggregate ==
  /\ inventory = [i \in 1..Len(InitialProducts) |->
                    [name |-> InitialProducts[i], qty |-> MaxQty]]
  /\ \E marker \in MarkerSpellings, f \in AggregateLayouts :
       sales = InitialSales(marker, f)
  /\ cache = NoCache
  /\ last = Shown("init", "", 0, "none", "", FALSE)
  /\ sessions = AllIdle

SpecAggregate == InitAggregate /\ [][NextForms]_vars

\* ================================================== concurrent sessions ==
\* Two users submit a form each.  Every handler runs as the sequence of its
\* backend calls, and the calls of the two sessions interleave; the sheets
\* and the cache are shared.  A call and the local computation that follows
\* it make one step; find and the read of the found row are taken together
\* (no call of this program moves an Inventory row).

\* the Inventory sheet after sheet.update_cell(cell.row, 2, new_quantity),
\* new_quantity = current_quantity - quantity_to_subtract
StockAfterWrite_OnPersisted(inv, row, current_quantity, quantity_to_subtract) ==
  [inv EXCEPT ![row].qty = @ - quantity_to_subtract]

StockAfterWrite(inv, row, current_quantity, quantity_to_subtract) ==
  [inv EXCEPT ![row].qty = current_quantity - quantity_to_subtract]

\* load_data_from_sheet at the top of a script run: the cached entry when
\* there is one, else a fresh load that is then cached
Loaded(cols) == [valid |-> TRUE, cols |-> cols]

Goto(s, rec) == sessions' = [sessions EXCEPT ![s] = rec]

\* new_entry_form submitted: the script run loads the data and the handler
\* starts
SubmitSale(s, selected_product, quantity) ==
  /\ sessions[s].pc = "idle"
  /\ selected_product \in Range(ProductList(LoadedColumns))
  /\ cache' = Loaded(LoadedColumns)
  /\ Goto(s, [Idle EXCEPT !.pc = "inv_read", !.op = "sale",
                          !.product = selected_product, !.qty = quantity,
                          !.all_cols = LoadedColumns])
  /\ UNCHANGED <<inventory, sales, last>>

\* update_inventory up to the test of new_quantity
ReadStock(s) ==
  LET me == sessions[s]
      ui == update_inventory(inventory, me.product, me.qty, "none")
      row == FindProduct(inventory, me.product)
  IN /\ me.pc = "inv_read"
     /\ IF ui.ok
        THEN Goto(s, [me EXCEPT !.pc = "inv_write", !.row = row,
                                !.read = inventory[row].qty])
        ELSE Goto(s, [me EXCEPT !.pc = "done", !.out = ui.msg])
     /\ UNCHANGED <<inventory, sales, cache, last>>

\* update_cell and load_data_from_sheet.clear() of update_inventory
WriteStock(s) ==
  LET me == sessions[s]
  IN /\ me.pc = "inv_write"
     /\ inventory' = StockAfterWrite(inventory, me.row, me.read, me.qty)
     /\ cache' = NoCache
     /\ Goto(s, [me EXCEPT !.pc = "sales_find"])
     /\ UNCHANGED <<sales, last>>

\* sheet.find("OBSHTO") and insert_row_index of append_to_sales
FindTotal(s) ==
  LET me         == sessions[s]
      total_cell == FindRow(sales, MARKER)
  IN /\ me.pc = "sales_find"
     /\ Goto(s, [me EXCEPT !.pc = "sales_insert",
                           !.found = (total_cell # 0),
                           !.idx = IF total_cell # 0 THEN total_cell
                                   ELSE Len(sales) + 1])
     /\ UNCHANGED <<inventory, sales, cache, last>>

\* sheet.insert_row of append_to_sales; with no total row found the cache
\* is cleared and the handler is through
InsertSalesRow(s) ==
  LET me      == sessions[s]
      row     == NewRowData(me.all_cols, FormClient, DocNumber, DocDate, "",
                            me.product, me.qty, 150)
      values  == [i \in 1..Len(me.all_cols) |-> row[me.all_cols[i]]]
  IN /\ me.pc = "sales_insert"
     /\ sales' = InsertRow(sales, values, me.idx)
     /\ IF me.found
        THEN /\ Goto(s, [me EXCEPT !.pc = "repair"])
             /\ UNCHANGED cache
        ELSE /\ Goto(s, [me EXCEPT !.pc = "done", !.out = "Success"])
             /\ cache' = NoCache
     /\ UNCHANGED <<inventory, last>>

\* the formula repair of append_to_sales and its clear(); fail = "app_post":
\* one of its backend calls raised
RepairFormulas(s, fail) ==
  LET me                  == sessions[s]
      new_total_row_index == me.idx + 1
      last_data_row_index == new_total_row_index - 1
      formulas_to_update  == ColsToRepair(sales, new_total_row_index)
  IN /\ me.pc = "repair"
     /\ IF fail = "app_post" \/ HeaderLookupFails(sales)
        THEN /\ Goto(s, [me EXCEPT !.pc = "done", !.out = "LedgerWriteFailed"])
             /\ UNCHANGED <<sales, cache>>
        ELSE /\ sales' = [sales EXCEPT ![new_total_row_index] =
                            [c \in 1..Len(@) |->
                               IF c \in formulas_to_update
                               THEN SumFormula(c, FirstDataRow, last_data_row_index)
                               ELSE @[c]]]
             /\ cache' = NoCache
             /\ Goto(s, [me EXCEPT !.pc = "done", !.out = "Success"])
     /\ UNCHANGED <<inventory, last>>

\* new_product_form submitted
SubmitProduct(s, new_product_name, initial_quantity) ==
  /\ sessions[s].pc = "idle"
  /\ cache' = Loaded(LoadedColumns)
  /\ Goto(s, [Idle EXCEPT !.pc = "prod_find", !.op = "provision",
                          !.product = new_product_name,
                          !.qty = initial_quantity,
                          !.all_cols = LoadedColumns])
  /\ UNCHANGED <<inventory, sales, last>>

\* the find of add_new_product_to_inventory
CheckDuplicate(s) ==
  LET me == sessions[s]
      np == add_new_product_to_inventory(inventory, me.product, me.qty, "none")
  IN /\ me.pc = "prod_find"
     /\ IF np.ok
        THEN Goto(s, [me EXCEPT !.pc = "prod_append"])
        ELSE Goto(s, [me EXCEPT !.pc = "done", !.out = np.msg])
     /\ UNCHANGED <<inventory, sales, cache, last>>

\* append_row and clear() of add_new_product_to_inventory
AppendProduct(s) ==
  LET me == sessions[s]
  IN /\ me.pc = "prod_append"
     /\ inventory' = Append(inventory, [name |-> me.product, qty |-> me.qty])
     /\ cache' = NoCache
     /\ Goto(s, [me EXCEPT !.pc = "col_read"])
     /\ UNCHANGED <<sales, last>>

\* row_values(4) and price_col_index of add_column_to_salesdata
ReadPriceColumn(s) ==
  LET me              == sessions[s]
      price_col_index == IndexOf(RowValues(sales, HeaderRow), UnitPriceColumn) + 1
  IN /\ me.pc = "col_read"
     /\ IF price_col_index = 0
        THEN Goto(s, [me EXCEPT !.pc = "done", !.out = "InventoryOnly"])
        ELSE Goto(s, [me EXCEPT !.pc = "col_insert", !.idx = price_col_index])
     /\ UNCHANGED <<inventory, sales, cache, last>>

\* spreadsheet.batch_update of add_column_to_salesdata
InsertProductColumn(s) ==
  LET me == sessions[s]
  IN /\ me.pc = "col_insert"
     /\ sales' = InsertColumn(sales, me.idx)
     /\ Goto(s, [me EXCEPT !.pc = "col_name"])
     /\ UNCHANGED <<inventory, cache, last>>

\* update_cell(4, price_col_index, product_name) and clear() of
\* add_column_to_salesdata; fail = "col_mid": update_cell raised
NameProductColumn(s, fail) ==
  LET me == sessions[s]
  IN /\ me.pc = "col_name"
     /\ IF fail = "col_mid"
        THEN /\ Goto(s, [me EXCEPT !.pc = "done", !.out = "InventoryOnly"])
             /\ UNCHANGED <<sales, cache>>
        ELSE /\ sales' = UpdateCell(sales, HeaderRow, me.idx, Txt(me.product))
             /\ cache' = NoCache
             /\ Goto(s, [me EXCEPT !.pc = "done", !.out = "Provisioned"])
     /\ UNCHANGED <<inventory, last>>

InitConcurrent ==
  /\ inventory = [i \in 1..Len(InitialProducts) |->
                    [name |-> InitialProducts[i], qty |-> MaxStock]]
  /\ sales = InitialSales(MARKER, {SumColumn})
  /\ cache = NoCache
  /\ last = Shown("init", "", 0, "none", "", FALSE)
  /\ sessions = AllIdle

NextConcurrent ==
  \E s \in Sessions :
    \/ \E p \in Range(InitialProducts), q \in 1..MaxQty : SubmitSale(s, p, q)
    \/ ReadStock(s)
    \/ WriteStock(s)
    \/ FindTotal(s)
    \/ InsertSalesRow(s)
    \/ \E fail \in {"none", "app_post"} : RepairFormulas(s, fail)
    \/ \E k \in InitialQuantities : SubmitProduct(s, FormProduct, k)
    \/ CheckDuplicate(s)
    \/ AppendProduct(s)
    \/ ReadPriceColumn(s)
    \/ InsertProductColumn(s)
    \/ \E fail \in {"none", "col_mid"} : NameProductColumn(s, fail)

SpecConcurrent == InitConcurrent /\ [][NextConcurrent]_vars

\* ======================================================== claim helpers ==
Present(inv, name) == FindProduct(inv, name) # 0
QtyOf(inv, name)   == inv[FindProduct(inv, name)].qty

\* every record other than name's is the same in inv and inv2
OthersUnchanged(inv, inv2, name) ==
  /\ Len(inv2) = Len(inv)
  /\ \A i \in 1..Len(inv) : inv[i].name # name => inv2[i] = inv[i]

\* name's quantity went down by q and nothing else changed in Inventory
Decremented(inv, inv2, name, q) ==
  /\ Present(inv, name)
  /\ OthersUnchanged(inv, inv2, name)
  /\ QtyOf(inv2, name) = QtyOf(inv, name) - q

\* two rows hold the same data, formula ranges aside
SameData(r1, r2) ==
  /\ Len(r1) = Len(r2)
  /\ \A c \in 1..Len(r1) :
       \/ r1[c] = r2[c]
       \/ r1[c].t = "sum" /\ r2[c].t = "sum"

\* new is old with exactly one row added, at index i
RowInsertedAt(old, new, i) ==
  /\ Len(new) = Len(old) + 1
  /\ i \in 1..Len(new)
  /\ \A j \in 1..Len(old) :
       SameData(old[j], IF j < i THEN new[j] ELSE new[j + 1])

\* the rows loadTable recognises as the AggregateRow
AggregateRows(sheet) ==
  {r \in (HeaderRow + 1)..Len(sheet) : IsAggregateRow(sheet, r)}

ColumnOf(sheet, name) == IndexOf(LoadColumns(sheet), name) + 1

\* the step is a submission of new_entry_form / of new_product_form
SaleStep      == last'.op = "sale"
ProvisionStep == last'.op = "provision"

\* =============================================================== claims ==

\* C1: for a product in Inventory with quantity q and a sale of n units,
\* 1 <= n <= q, with no backend call failing, recording the sale leaves the
\* product's quantity at q - n, every other record unchanged, and exactly
\* one new row in SalesData, directly above the AggregateRow.
C1_SaleAppendsAboveAggregate ==
  [][(/\ SaleStep
      /\ last'.fault = "none"
      /\ last'.out # "MissingFields"
      /\ Present(inventory, last'.product)
      /\ last'.qty <= QtyOf(inventory, last'.product))
     => /\ Decremented(inventory, inventory', last'.product, last'.qty)
        /\ \E i \in 1..(Len(sales') - 1) :
             /\ RowInsertedAt(sales, sales', i)
             /\ sales'[i][ColumnOf(sales', TotalQuantityColumn)] = Num(last'.qty)
             /\ IsAggregateRow(sales', i + 1)
             /\ ~IsAggregateRow(sales', i)]_vars

\* C2: a sale of more units than the product has on hand ends with the
\* insufficient-stock outcome and changes neither Inventory nor SalesData.
C2_InsufficientStockMutatesNothing ==
  [][(/\ SaleStep
      /\ Present(inventory, last'.product)
      /\ last'.qty > QtyOf(inventory, last'.product))
     => /\ inventory' = inventory
        /\ sales' = sales
        /\ ~last'.second
        /\ (last'.fault = "none" /\ last'.out # "MissingFields"
              => last'.out = "InsufficientStock")]_vars

C2_Witness ==
  /\ last.op = "sale"
  /\ last.out = "InsufficientStock"
  /\ Present(inventory, last.product)
  /\ last.qty > QtyOf(inventory, last.product)

\* C3: when a sale ends with the ledger-write-failed outcome, Inventory
\* holds the decremented quantity and SalesData has no new row.
C3_LedgerWriteFailedLeavesNoRow ==
  [][(SaleStep /\ last'.out = "LedgerWriteFailed")
     => /\ Decremented(inventory, inventory', last'.product, last'.qty)
        /\ Len(sales') = Len(sales)]_vars

\* C4: the sales row is appended only after the inventory decrement was
\* persisted: when the product is not found or the inventory write fails,
\* append_to_sales is not called and SalesData is unchanged.
C4_AppendOnlyAfterDecrement ==
  [][SaleStep
     => /\ (\/ ~Present(inventory, last'.product)
            \/ last'.fault \in {"inv_open", "inv_write"})
           => /\ ~last'.second
              /\ sales' = sales
              /\ inventory' = inventory
        /\ (last'.second \/ sales' # sales)
           => Decremented(inventory, inventory', last'.product, last'.qty)]_vars

C4_Witness ==
  /\ last.op = "sale"
  /\ last.out = "NotFound"
  /\ ~Present(inventory, last.product)
  /\ ~last.second

\* C5: after any sequence of appends to a SalesData that holds exactly one
\* AggregateRow (client name equal to the marker once stripped and
\* upper-cased), there is still exactly one AggregateRow and it is the last
\* row of the sheet: every appended row lies above it.
C5_AggregateRowStaysLast ==
  /\ Cardinality(AggregateRows(sales)) = 1
  /\ \A r \in AggregateRows(sales) : r = Len(sales)

\* the numeric column span: "Suma lv.", every ProductColumn, "Obshto kol-vo"
NumericSpan(sheet) ==
  LET cols == LoadColumns(sheet)
  IN {c \in 1..Len(cols) :
        \/ cols[c] \in {SumColumn, TotalQuantityColumn}
        \/ /\ IndexOf(cols, TotalQuantityColumn) + 1 < c
           /\ c < IndexOf(cols, UnitPriceColumn) + 1}

\* C6: after a successful append every formula cell of the AggregateRow in
\* the numeric column span sums its own column from the first data row to
\* the row immediately above the AggregateRow.
C6_AggregateFormulasCoverAllRows ==
  (last.op = "sale" /\ last.out = "Success")
  => \A r \in AggregateRows(sales) : \A c \in NumericSpan(sales) :
       sales[r][c].t = "sum"
       => sales[r][c] = SumFormula(c, FirstDataRow, r - 1)

\* C7: provisioning a name that is not in Inventory, with no backend call
\* failing, adds exactly one record {name: k} to Inventory and exactly one
\* column to the SalesData header, named after the product and immediately
\* left of "Cena"; the other columns keep their order.
C7_ProvisionAddsRecordAndColumn ==
  [][(/\ ProvisionStep
      /\ last'.product # ""
      /\ last'.fault = "none"
      /\ ~Present(inventory, last'.product))
     => LET old == RowValues(sales, HeaderRow)
            new == RowValues(sales', HeaderRow)
            pos == IndexOf(old, UnitPriceColumn) + 1
        IN /\ last'.out = "Provisioned"
           /\ inventory' = Append(inventory, [name |-> last'.product,
                                              qty  |-> last'.qty])
           /\ Len(new) = Len(old) + 1
           /\ new[pos] = last'.product
           /\ new[pos + 1] = UnitPriceColumn
           /\ \A c \in 1..Len(old) :
                old[c] = IF c < pos THEN new[c] ELSE new[c + 1]
           /\ \A r \in 1..Len(sales) :
                Len(sales'[r]) = IF r < HeaderRow THEN 0 ELSE Len(sales[r]) + 1]_vars

C7_Witness ==
  /\ last.op = "provision"
  /\ last.out = "Provisioned"
  /\ Present(inventory, last.product)
  /\ ColumnOf(sales, last.product) + 1 = ColumnOf(sales, UnitPriceColumn)

\* C8: provisioning a name that is already in Inventory ends with the
\* duplicate-product outcome before any mutation: Inventory and SalesData
\* are unchanged and add_column_to_salesdata is not called.
C8_DuplicateProductMutatesNothing ==
  [][(ProvisionStep /\ Present(inventory, last'.product))
     => /\ inventory' = inventory
        /\ sales' = sales
        /\ ~last'.second
        /\ (last'.fault = "none" => last'.out = "DuplicateProduct")]_vars

C8_Witness ==
  /\ last.op = "provision"
  /\ last.out = "DuplicateProduct"
  /\ Present(inventory, last.product)
  /\ ~last.second

\* C9: when provisioning created the Inventory record and the column step
\* reported failure, the record is kept and SalesData has gained no column.
C9_InventoryOnlyGainsNoColumn ==
  [][(ProvisionStep /\ last'.out = "InventoryOnly")
     => /\ inventory' = Append(inventory, [name |-> last'.product,
                                           qty  |-> last'.qty])
        /\ \A r \in 1..Len(sales) : Len(sales'[r]) = Len(sales[r])]_vars

\* C10: starting with every ProductColumn having exactly one Inventory
\* record of the same name, every ProductColumn still has exactly one after
\* any sequence of provision and record-sale submissions.
C10_Lockstep ==
  LET product_list == ProductList(LoadColumns(sales))
  IN \A c \in 1..Len(product_list) :
       Cardinality({i \in 1..Len(inventory) :
                      inventory[i].name = product_list[c]}) = 1

\* the step is a script run that only shows the record-entry page
ViewStep == last'.op = "view"

\* 1-based position of the first occurrence of name in cols, 0 when absent
FirstAt(cols, name) ==
  IF \E i \in 1..Len(cols) : cols[i] = name
  THEN CHOOSE i \in 1..Len(cols) :
         cols[i] = name /\ \A j \in 1..(i - 1) : cols[j] # name
  ELSE 0

\* the names strictly between the first occurrences of the two sentinels
Between(cols) ==
  SubSeq(cols, FirstAt(cols, TotalQuantityColumn) + 1,
               FirstAt(cols, UnitPriceColumn) - 1)

\* C11: for every loaded header that holds both sentinels, "Obshto kol-vo"
\* left of "Cena", schema resolution returns exactly the names strictly
\* between the first occurrence of each, in left-to-right order, and
\* reports no error.
C11_SchemaResolutionReturnsRegion ==
  (/\ last.op = "view"
   /\ FirstAt(cache.cols, TotalQuantityColumn) # 0
   /\ FirstAt(cache.cols, TotalQuantityColumn) < FirstAt(cache.cols, UnitPriceColumn))
  => /\ ProductList(cache.cols) = Between(cache.cols)
     /\ last.qty = Len(Between(cache.cols))
     /\ last.out = ""

C11_Witness ==
  /\ last.op = "view"
  /\ ProductList(cache.cols) = <<"B", "A">>
  /\ last.qty = 2
  /\ last.out = ""

\* C12: every schema-resolution failure is reported and disables record
\* entry: a sentinel absent or the sentinels out of order shows the
\* MissingSentinel error, an empty region between them shows the
\* EmptyRegion error, and in each case the form is not shown and no sale
\* is recorded from that load.
C12_SchemaFailuresReported ==
  [][/\ ViewStep
        => LET s == FirstAt(cache'.cols, TotalQuantityColumn)
               e == FirstAt(cache'.cols, UnitPriceColumn)
           IN /\ (s = 0 \/ e = 0 \/ s > e)
                 => last'.out = "MissingSentinel" /\ ~last'.second
              /\ (s # 0 /\ e = s + 1)
                 => last'.out = "EmptyRegion" /\ ~last'.second
     /\ SaleStep
        => LET s == FirstAt(LoadedColumns, TotalQuantityColumn)
               e == FirstAt(LoadedColumns, UnitPriceColumn)
           IN s # 0 /\ s + 1 < e]_vars

\* the sheet with every header name freed of stray whitespace
CleanHeader(sheet) ==
  [sheet EXCEPT ![HeaderRow] =
     [c \in 1..Len(@) |-> Txt(NormalizeHeader(@[c].s))]]

\* C13: on a persisted header whose sentinel names carry stray whitespace,
\* schema resolution on load, the append with its formula repair, and the
\* column insertion of provisioning behave as on the same header without
\* the stray whitespace.
C13_HeaderNoiseTolerated ==
  [][/\ ViewStep
        => cache'.cols = LoadColumns(CleanHeader(sales))
     /\ (SaleStep /\ last'.second)
        => LET row == NewRowData(LoadedColumns, FormClient, DocNumber, DocDate,
                                 "", last'.product, last'.qty, 150)
               ap  == append_to_sales(CleanHeader(sales), row, LoadedColumns, "none")
           IN /\ CleanHeader(sales') = ap.sheet
              /\ (last'.out = "Success") = ap.ok
     /\ (ProvisionStep /\ last'.second)
        => LET ac == add_column_to_salesdata(CleanHeader(sales), last'.product, "none")
           IN /\ CleanHeader(sales') = ac.sheet
              /\ (last'.out = "Provisioned") = ac.ok]_vars

\* every handler has run to its end
Quiescent == \A s \in Sessions : sessions[s].pc \in {"idle", "done"}

\* C14: the cache never masks a completed write of the same process: once
\* the handlers that wrote have run to their end, a cache entry that is
\* still served holds what a fresh load of the sheet returns.
C14_CacheNeverMasksWrite ==
  (Quiescent /\ cache.valid) => cache.cols = LoadColumns(sales)

\* C15: two sales of one product by two sessions that both read the same
\* quantity both report success and both append their row, and the
\* persisted quantity is the read quantity less one of the two sold
\* quantities only: one decrement is lost.
C15_LostUpdate ==
  \A s1, s2 \in Sessions :
    (/\ s1 # s2
     /\ sessions[s1].op = "sale" /\ sessions[s2].op = "sale"
     /\ sessions[s1].out = "Success" /\ sessions[s2].out = "Success"
     /\ sessions[s1].product = sessions[s2].product
     /\ sessions[s1].read = sessions[s2].read)
    => /\ QtyOf(inventory, sessions[s1].product)
            \in {sessions[s1].read - sessions[s1].qty,
                 sessions[s2].read - sessions[s2].qty}
       /\ QtyOf(inventory, sessions[s1].product)
            > sessions[s1].read - sessions[s1].qty - sessions[s2].qty
       /\ Len(sales) = InitialRows + 2

C15_Witness ==
  /\ \A s \in Sessions :
       /\ sessions[s].op = "sale" /\ sessions[s].out = "Success"
       /\ sessions[s].product = "A" /\ sessions[s].qty = 1
       /\ sessions[s].read = MaxStock
  /\ QtyOf(inventory, "A") = MaxStock - 1
  /\ Len(sales) = InitialRows + 2
  /\ \A r \in FirstDataRow + 1 .. FirstDataRow + 2 :
       sales[r][ColumnOf(sales, "A")] = Num(1)

\* C19: under every interleaving of concurrent record-sale and provision
\* handlers every Inventory quantity is >= 0.
C19_QuantitiesNeverNegative ==
  \A i \in 1..Len(inventory) : inventory[i].qty >= 0

C19_Witness ==
  /\ \E s \in Sessions :
       /\ sessions[s].op = "sale" /\ sessions[s].out = "Success"
       /\ sessions[s].qty = MaxStock
       /\ QtyOf(inventory, sessions[s].product) = 0
  /\ \E s \in Sessions :
       /\ sessions[s].op = "provision" /\ sessions[s].out = "Provisioned"
       /\ sessions[s].qty = 0
       /\ QtyOf(inventory, FormProduct) = 0

\* C16: an append rewrites only cells of the AggregateRow that already hold
\* a formula: every other cell of the sheet, the inserted row aside, is
\* left as it was; when the AggregateRow holds no formula cell the append
\* writes nothing to it and still reports success.
C16_RepairTouchesOnlyFormulaCells ==
  [][(SaleStep /\ last'.second)
     => LET t == FindRow(sales, MARKER)
            i == IF t # 0 THEN t ELSE Len(sales) + 1
        IN /\ Len(sales') = Len(sales) + 1
           /\ \A j \in 1..Len(sales) :
                LET k == IF j < i THEN j ELSE j + 1
                IN /\ Len(sales'[k]) = Len(sales[j])
                   /\ \A c \in 1..Len(sales[j]) :
                        sales'[k][c] # ShiftRows(sales[j][c], i)
                        => /\ IsAggregateRow(sales, j)
                           /\ StartsWithEq(sales[j][c])
                           /\ StartsWithEq(sales'[k][c])
           /\ \A j \in AggregateRows(sales) :
                (\A c \in 1..Len(sales[j]) : ~StartsWithEq(sales[j][c]))
                => /\ sales'[IF j < i THEN j ELSE j + 1] = sales[j]
                   /\ last'.out = "Success"]_vars

C16_Witness ==
  /\ last.op = "sale"
  /\ last.out = "Success"
  /\ \E r \in AggregateRows(sales) :
       /\ r = Len(sales)
       /\ r > InitialRows
       /\ sales[r][1] = Txt(MARKER)
       /\ \A c \in 1..Len(sales[r]) : ~StartsWithEq(sales[r][c])

\* client name of sheet row r as the filter reads it
ClientKey(sheet, r) ==
  Upper(Strip(sheet[r][ColumnOf(sheet, ClientColumn)].s))

\* C17: the loaded view of a table with a client-name column holds no row
\* whose client name is the marker once case and surrounding whitespace
\* are ignored, and holds every other persisted data row, in the original
\* order.
C17_LoadDropsAggregateRow ==
  LET view == LoadRows(sales)
  IN ColumnOf(sales, ClientColumn) # 0
     => /\ \A k \in 1..Len(view) : ClientKey(sales, view[k]) # MARKER
        /\ \A r \in (HeaderRow + 1)..Len(sales) :
             ClientKey(sales, r) # MARKER => \E k \in 1..Len(view) : view[k] = r
        /\ \A k \in 1..(Len(view) - 1) : view[k] < view[k + 1]

C17_Witness ==
  /\ last.op = "sale"
  /\ Len(LoadRows(sales)) = 2
  /\ \E r \in (HeaderRow + 1)..(Len(sales) - 1) :
       /\ sales[r][1] = Txt("Obshto ")
       /\ \A k \in 1..Len(LoadRows(sales)) : LoadRows(sales)[k] # r

\* C18: every sales row the record-entry workflow builds has line total =
\* quantity x unit price and total quantity = quantity, holds the quantity
\* under the selected product's column and nothing under any other
\* ProductColumn.
C18_RowTotalsAndSingleProduct ==
  [][(SaleStep /\ last'.second)
     => \E i \in (HeaderRow + 1)..Len(sales'), pr \in Prices :
          LET cols == LoadColumns(sales')
              row  == sales'[i]
          IN /\ RowInsertedAt(sales, sales', i)
             /\ row[ColumnOf(sales', SumColumn)] = Num(last'.qty * pr)
             /\ row[ColumnOf(sales', UnitPriceColumn)] = Num(pr)
             /\ row[ColumnOf(sales', TotalQuantityColumn)] = Num(last'.qty)
             /\ \A c \in (ColumnOf(sales', TotalQuantityColumn) + 1)
                          ..(ColumnOf(sales', UnitPriceColumn) - 1) :
                  row[c] = IF cols[c] = last'.product
                           THEN Num(last'.qty) ELSE Blank]_vars

C18_Witness ==
  /\ last.op = "sale"
  /\ last.out = "Success"
  /\ last.product = "B"
  /\ last.qty = 2
  /\ \E i \in (FirstDataRow + 1)..Len(sales) :
       /\ sales[i][ColumnOf(sales, SumColumn)] = Num(300)
       /\ sales[i][ColumnOf(sales, "B")] = Num(2)
       /\ sales[i][ColumnOf(sales, "A")] = Blank

\* the numbers held under column c in the rows from..Len(sheet), summed
RECURSIVE SumFrom(_, _, _)
SumFrom(sheet, c, from) ==
  IF from > Len(sheet) THEN 0
  ELSE (IF c <= Len(sheet[from]) /\ sheet[from][c].t = "num"
        THEN sheet[from][c].n ELSE 0) + SumFrom(sheet, c, from + 1)

\* the quantities recorded in the ledger under the column named name,
\* cols being the loaded column names of the sheet
ColSum(sheet, cols, name) ==
  LET c == IndexOf(cols, name) + 1
  IN IF c = 0 THEN 0 ELSE SumFrom(sheet, c, HeaderRow + 1)

\* what the step took from the Inventory quantity of name
Deducted(name) ==
  LET i == FindProduct(inventory, name)
      j == FindProduct(inventory', name)
  IN IF i # 0 /\ j # 0 THEN inventory[i].qty - inventory'[j].qty ELSE 0

\* C20: with a single writer the quantities recorded under a product's
\* ledger column never exceed what was deducted from its Inventory
\* quantity: no step adds more to the column than it takes from the
\* product's quantity, and none adds to the column of a product that has
\* no Inventory record.
C20_LedgerNeverLeadsInventory ==
  [][LET names == Range(InitialProducts) \cup (ProductNames \ {""})
         old   == LoadColumns(sales)
         new   == LoadColumns(sales')
     IN \/ sales' = sales /\ inventory' = inventory
        \/ \A name \in names :
             LET d == Deducted(name)
             IN /\ 0 <= d
                /\ sales' # sales
                   => ColSum(sales', new, name) - ColSum(sales, old, name) <= d]_vars

C20_Witness ==
  /\ last.op = "sale"
  /\ last.out = "Success"
  /\ last.product = "A"
  /\ ColSum(sales, LoadColumns(sales), "A") = last.qty
  /\ QtyOf(inventory, "A") = MaxStock - last.qty

\* C21: the quantity of a newly appended sales row lies under the column
\* whose persisted header is the selected product, and its unit price and
\* line total under "Cena" and "Suma lv.", also when another session
\* inserted a ProductColumn after the appending session loaded its columns.
C21_RowAlignedWithPersistedHeader ==
  [][\A s \in Sessions :
       (sessions[s].pc = "sales_insert" /\ sessions'[s].pc # "sales_insert")
       => LET me  == sessions[s]
              row == sales'[me.idx]
          IN /\ row[ColumnOf(sales', me.product)] = Num(me.qty)
             /\ row[ColumnOf(sales', UnitPriceColumn)] = Num(150)
             /\ row[ColumnOf(sales', SumColumn)] = Num(me.qty * 150)]_vars

====
